---- MODULE Spec2Model ----
(***************************************************************************)
(* Model of MetaICLModel (src/MetaICL/metaicl/model.py): the training loop *)
(* do_train with save, and the scoring path run_model -> do_inference ->    *)
(* do_predict.                                                              *)
(*                                                                          *)
(* Floats are fixed-point naturals (division truncates); NaN is a separate  *)
(* value that absorbs every sum and makes every comparison false, as IEEE   *)
(* NaN does. Python's 0-based positions are 1-based positions here.         *)
(***************************************************************************)
EXTENDS Integers, Sequences, FiniteSets, TLC

\* ------------------------------------------------------------------ bounds
MaxSteps == 3
MaxBatches == 2
MaxAccum == 2
MaxPeriod == 2
MaxItems == 3
MaxTok == 1

VARIABLES
  pc,                           \* position of the control thread
  local_rank, scheduler,        \* __init__ / setup_optimizer fields
  num_training_steps, n_batches, gradient_accumulation_steps,
  save_period, log_period,      \* do_train arguments and dataloader length
  global_step, epoch, batch_i, train_losses, stop_training,
  grads,                        \* backward passes accumulated since zero_grad
  trace,                        \* side effects of do_train, in program order
  checkpoints,                  \* step indices s of the files model-{s}.pt written
  metadata, n_items, batch_size, losses_arg, require_loss, label_id, do_probs,
  losses,                       \* do_inference's accumulating list, then its result
  idx, predictions              \* do_predict's loop position and result

trainVars == <<num_training_steps, n_batches, gradient_accumulation_steps,
               save_period, log_period, global_step, epoch, batch_i,
               train_losses, stop_training, grads, trace, checkpoints>>
predictVars == <<metadata, n_items, batch_size, losses_arg, require_loss,
                 label_id, do_probs, losses, idx, predictions>>
vars == <<pc, local_rank, scheduler, trainVars, predictVars>>

\* ------------------------------------------------------------- float model
NaN == -1

IsNaN(x) == x = NaN

\* a < b on floats: false as soon as one side is NaN
IsLt(a, b) == ~IsNaN(a) /\ ~IsNaN(b) /\ a < b

Add(a, b) == IF IsNaN(a) \/ IsNaN(b) THEN NaN ELSE a + b

\* float / count; the numerator is a masked sum, so it is 0 when the count is 0
Div(a, b) == IF IsNaN(a) \/ b = 0 THEN NaN ELSE a \div b

RECURSIVE SumSeq(_)
SumSeq(s) == IF s = <<>> THEN 0 ELSE Add(Head(s), SumSeq(Tail(s)))

\* np.mean / tensor.mean over a non-empty sequence
Mean(s) == Div(SumSeq(s), Len(s))

HasNaN(s) == \E i \in 1..Len(s) : IsNaN(s[i])

\* ---------------------------------------------------------------- run_model
\* One example after the shift of lines 306-314: per scored position the
\* cross-entropy of the token and the label-mask entry.
Tokens == [ce : 0..1, mask : 0..1]

Items == UNION {[1..k -> Tokens] : k \in 1..MaxTok}

RECURSIVE MaskedSum(_)
MaskedSum(item) ==
  IF item = <<>> THEN 0
  ELSE Head(item).ce * Head(item).mask + MaskedSum(Tail(item))

RECURSIVE MaskCount(_)
MaskCount(item) ==
  IF item = <<>> THEN 0 ELSE Head(item).mask + MaskCount(Tail(item))

NormLoss(item) == Div(MaskedSum(item), MaskCount(item))

\* norm_losses: one value per example of the batch
run_model(batch) == [i \in 1..Len(batch) |-> NormLoss(batch[i])]

\* ------------------------------------------------------------------- events
Ev(op, step, arg) == [op |-> op, step |-> step, arg |-> arg]

Ranks == {-1, 0, 1}

\* ------------------------------------------------------------------- save
SaveWritesAnyRank(rank) == TRUE

\* line 120
SaveWrites(rank) == rank <= 0

save(rank, step) ==
  IF SaveWrites(rank)
  THEN <<Ev("torch.save", step, 0), Ev("info_save", step, 0)>>
  ELSE <<>>

\* ---------------------------------------------------------------- do_train
\* Training batches: one example per batch, every scored token with
\* cross-entropy 1; the label mask is free, so the loss is 1 or NaN.
TrainItems == {it \in Items : \A i \in 1..Len(it) : it[i].ce = 1}

TrainBatches == {<<it>> : it \in TrainItems}

AccumDueZeroBased(step, accum) == (step - 1) % accum = 0

\* line 218
AccumDue(step, accum) == step % accum = 0

\* line 226
LogDue(step, period) == step % period = 0

\* line 230
SaveDue(step, period) == step % period = 0

ReachedLimitOffByOne(step, limit) == step = limit + 1

\* lines 233 and 236
ReachedLimit(step, limit) == step = limit

\* line 205
Diverged(loss) == IsNaN(loss)

StepLogPrimaryOnly(rank, step, tl) ==
  IF rank <= 0 THEN <<Ev("info_step", step, Mean(tl))>> ELSE <<>>

\* line 227: logger.info is called whatever the rank; the line carries
\* local_rank, global_step and the mean of the window of losses
StepLog(rank, step, tl) == <<Ev("info_step", step, Mean(tl))>>

\* lines 219-224: the events of one parameter update; g backward passes are
\* in the gradients when optimizer.step applies them
UpdateEvents(step, g, sched) ==
  <<Ev("clip_grad_norm_", step, g), Ev("optimizer.step", step, g)>>
  \o (IF sched THEN <<Ev("scheduler.step", step, g)>> ELSE <<>>)
  \o <<Ev("zero_grad", step, 0)>>

\* lines 209-231 for a loss that is not NaN, at step `step` with g backward
\* passes accumulated after this step's backward pass and tl the window of
\* losses after line 209
StepEvents(step, g, tl, rank, sched, accum, lp, sp) ==
  <<Ev("backward", step, g)>>
  \o (IF AccumDue(step, accum) THEN UpdateEvents(step, g, sched) ELSE <<>>)
  \o (IF LogDue(step, lp) THEN StepLog(rank, step, tl) ELSE <<>>)
  \o (IF SaveDue(step, sp) THEN save(rank, step) ELSE <<>>)

\* lines 179-188
DoTrain(steps, nb, accum, sp, lp) ==
  /\ pc = "idle"
  /\ num_training_steps' = steps
  /\ n_batches' = nb
  /\ gradient_accumulation_steps' = accum
  /\ save_period' = sp
  /\ log_period' = lp
  /\ global_step' = 0
  /\ train_losses' = <<>>
  /\ stop_training' = FALSE
  /\ epoch' = 0
  /\ trace' = <<Ev("info_start", 0, 0)>>
  /\ pc' = "epoch"
  /\ UNCHANGED <<local_rank, scheduler, batch_i, grads, checkpoints, predictVars>>

\* line 190: for epoch in range(num_training_steps)
ForEpoch ==
  /\ pc = "epoch"
  /\ IF epoch < num_training_steps
     THEN batch_i' = 0 /\ pc' = "batch"
     ELSE batch_i' = batch_i /\ pc' = "finish"
  /\ UNCHANGED <<local_rank, scheduler, num_training_steps, n_batches,
                 gradient_accumulation_steps, save_period, log_period,
                 global_step, epoch, train_losses, stop_training, grads,
                 trace, checkpoints, predictVars>>

\* line 191 with an exhausted dataloader: the inner loop ends
BatchesExhausted ==
  /\ pc = "batch"
  /\ batch_i >= n_batches
  /\ pc' = "epoch_end"
  /\ UNCHANGED <<local_rank, scheduler, trainVars, predictVars>>

\* lines 191-234: one iteration of the inner loop on the fetched batch
TrainStep(batch) ==
  /\ pc = "batch"
  /\ batch_i < n_batches
  /\ LET step == global_step + 1
         loss == Mean(run_model(batch))
     IN
     /\ global_step' = step
     /\ batch_i' = batch_i + 1
     /\ IF Diverged(loss)
        THEN /\ trace' = trace \o <<Ev("run_model", step, loss),
                                    Ev("print_stop", step, loss)>>
             /\ stop_training' = TRUE
             /\ pc' = "epoch_end"
             /\ UNCHANGED <<train_losses, grads, checkpoints>>
        ELSE LET tl == Append(train_losses, loss)
                 g  == grads + 1
             IN
             /\ trace' = trace \o <<Ev("run_model", step, loss)>>
                         \o StepEvents(step, g, tl, local_rank, scheduler,
                                       gradient_accumulation_steps,
                                       log_period, save_period)
             /\ grads' = IF AccumDue(step, gradient_accumulation_steps)
                         THEN 0 ELSE g
             /\ train_losses' = IF LogDue(step, log_period) THEN <<>> ELSE tl
             /\ checkpoints' = IF SaveDue(step, save_period) /\ SaveWrites(local_rank)
                               THEN checkpoints \cup {step} ELSE checkpoints
             /\ pc' = IF ReachedLimit(step, num_training_steps)
                      THEN "epoch_end" ELSE "batch"
             /\ UNCHANGED stop_training
  /\ UNCHANGED <<local_rank, scheduler, num_training_steps, n_batches,
                 gradient_accumulation_steps, save_period, log_period,
                 epoch, predictVars>>

\* lines 236-237, then the next epoch of line 190
EpochEnd ==
  /\ pc = "epoch_end"
  /\ IF ReachedLimit(global_step, num_training_steps)
     THEN epoch' = epoch /\ pc' = "finish"
     ELSE epoch' = epoch + 1 /\ pc' = "epoch"
  /\ UNCHANGED <<local_rank, scheduler, num_training_steps, n_batches,
                 gradient_accumulation_steps, save_period, log_period,
                 global_step, batch_i, train_losses, stop_training, grads,
                 trace, checkpoints, predictVars>>

\* line 239
FinishTraining ==
  /\ pc = "finish"
  /\ trace' = Append(trace, Ev("info_finish", global_step, 0))
  /\ pc' = "trained"
  /\ UNCHANGED <<local_rank, scheduler, num_training_steps, n_batches,
                 gradient_accumulation_steps, save_period, log_period,
                 global_step, epoch, batch_i, train_losses, stop_training,
                 grads, checkpoints, predictVars>>

\* ------------------------------------------------------------- do_inference
Min(a, b) == IF a < b THEN a ELSE b

\* np.exp(-x) in thousandths
RECURSIVE ExpNeg(_)
ExpNeg(x) == IF x = 0 THEN 1000 ELSE (ExpNeg(x - 1) * 1000) \div 2718

\* lines 261-266: softmax(-losses) over the whole array, in thousandths; one
\* NaN makes the normaliser, and so every entry, NaN
softmax(ls) ==
  IF HasNaN(ls) THEN [i \in 1..Len(ls) |-> NaN]
  ELSE LET e == [i \in 1..Len(ls) |-> ExpNeg(ls[i])]
       IN  [i \in 1..Len(ls) |-> (e[i] * 1000) \div SumSeq(e)]

\* --------------------------------------------------------------- metadata
RECURSIVE Compositions(_)
Compositions(n) ==
  IF n = 0 THEN {<<>>}
  ELSE UNION {{<<k>> \o c : c \in Compositions(n - k)} : k \in 1..n}

RECURSIVE PrefixSum(_, _)
PrefixSum(c, k) == IF k = 0 THEN 0 ELSE c[k] + PrefixSum(c, k - 1)

Letters == <<"a", "b", "c", "d", "e", "f">>

Whitespace == {" ", "\t", "\n"}

\* option strings as character sequences, some with surrounding blanks
OptionString(k) ==
  IF k % 3 = 1 THEN <<Letters[k]>>
  ELSE IF k % 3 = 2 THEN <<" ", Letters[k]>>
  ELSE <<Letters[k], " ">>

\* the record of one example whose items start after position off: option k
\* owns the next c[k] positions of the loss array
MakeDp(off, c) ==
  [options |-> [k \in 1..Len(c) |-> OptionString(k)],
   indices |-> [k \in 1..Len(c) |->
                  [j \in 1..c[k] |-> off + PrefixSum(c, k - 1) + j]]]

RECURSIVE MetaFrom(_, _)
MetaFrom(off, sizes) ==
  IF sizes = <<>> THEN {<<>>}
  ELSE {<<dp>> \o rest :
          dp \in {MakeDp(off, c) : c \in Compositions(Head(sizes))},
          rest \in MetaFrom(off + Head(sizes), Tail(sizes))}

\* data.metadata for a data set of n items: its indices partition 1..n
MetadataFor(n) == UNION {MetaFrom(0, sizes) : sizes \in Compositions(n)}

MinOptions(md) ==
  CHOOSE m \in {Len(md[e].options) : e \in 1..Len(md)} :
    \A e \in 1..Len(md) : m <= Len(md[e].options)

\* ------------------------------------------------------------- str.strip
RECURSIVE LStrip(_)
LStrip(s) ==
  IF s # <<>> /\ Head(s) \in Whitespace THEN LStrip(Tail(s)) ELSE s

RECURSIVE RStrip(_)
RStrip(s) ==
  IF s # <<>> /\ s[Len(s)] \in Whitespace
  THEN RStrip(SubSeq(s, 1, Len(s) - 1)) ELSE s

Strip(s) == RStrip(LStrip(s))

\* ------------------------------------------------------------ list.sort
\* sorted(enumerate(xs), key=lambda x: x[1]) as CPython sorts a list of fewer
\* than 64 entries: the leading run is counted (and reversed when strictly
\* descending), the rest is inserted by binary search. Entries are <<k, key>>.
RECURSIVE Reverse(_)
Reverse(s) == IF s = <<>> THEN <<>> ELSE Append(Reverse(Tail(s)), Head(s))

RECURSIVE RunEnd(_, _, _)
RunEnd(a, i, desc) ==
  IF i = Len(a) THEN i
  ELSE IF IsLt(a[i + 1][2], a[i][2]) = desc THEN RunEnd(a, i + 1, desc)
  ELSE i

RECURSIVE InsertPos(_, _, _, _)
InsertPos(a, pivot, l, r) ==
  IF l >= r THEN l
  ELSE LET p == l + ((r - l) \div 2)
       IN  IF IsLt(pivot[2], a[p][2]) THEN InsertPos(a, pivot, l, p)
           ELSE InsertPos(a, pivot, p + 1, r)

RECURSIVE BinarySort(_, _)
BinarySort(a, start) ==
  IF start > Len(a) THEN a
  ELSE LET pivot == a[start]
           l == InsertPos(a, pivot, 1, start)
       IN  BinarySort(SubSeq(a, 1, l - 1) \o <<pivot>> \o SubSeq(a, l, start - 1)
                      \o SubSeq(a, start + 1, Len(a)), start + 1)

ListSort(a) ==
  IF Len(a) < 2 THEN a
  ELSE LET desc == IsLt(a[2][2], a[1][2])
           n == RunEnd(a, 2, desc)
           run == IF desc THEN Reverse(SubSeq(a, 1, n)) ELSE SubSeq(a, 1, n)
       IN  BinarySort(run \o SubSeq(a, n + 1, Len(a)), n + 1)

PySorted(a, reverse) ==
  IF reverse THEN Reverse(ListSort(Reverse(a))) ELSE ListSort(a)

\* --------------------------------------------------------------- do_predict
Bare(text) == [pair |-> FALSE, text |-> text, score |-> 0]

Pair(text, score) == [pair |-> TRUE, text |-> text, score |-> score]

\* line 279
OptionLosses(dp, ls) ==
  [k \in 1..Len(dp.indices) |->
     SumSeq([j \in 1..Len(dp.indices[k]) |-> ls[dp.indices[k][j]]])]

Enumerate(xs) == [k \in 1..Len(xs) |-> <<k, xs[k]>>]

\* lines 281-284
LabelBranch(dp, cur, lid) ==
  IF lid # <<>> THEN <<Pair(Strip(dp.options[lid[1]]), cur[lid[1]])>> ELSE <<>>

\* lines 285-298
RankBranch(dp, cur, rl, probs) ==
  IF ~rl
  THEN <<Bare(Strip(dp.options[PySorted(Enumerate(cur), FALSE)[1][1]]))>>
  ELSE LET top == PySorted(Enumerate(cur), probs)[1]
       IN  <<Pair(Strip(dp.options[top[1]]), top[2])>>

\* lines 279-298: what one example appends to predictions
ExamplePredictions(dp, ls, lid, rl, probs) ==
  LET cur == OptionLosses(dp, ls)
  IN  LabelBranch(dp, cur, lid) \o RankBranch(dp, cur, rl, probs)

RECURSIVE PredictAll(_, _, _, _, _)
PredictAll(md, ls, lid, rl, probs) ==
  IF md = <<>> THEN <<>>
  ELSE ExamplePredictions(Head(md), ls, lid, rl, probs)
       \o PredictAll(Tail(md), ls, lid, rl, probs)

\* the losses argument of do_predict: None (<<>>) or an array of n scores
LossArgs(n) == {<<>>, [i \in 1..n |-> i]}

BatchSizes == {1, 2}

\* lines 271-273 and 242-245
DoPredict(md, n, bs, larg, rl, lid, probs) ==
  /\ pc = "idle"
  /\ metadata' = md
  /\ n_items' = n
  /\ batch_size' = bs
  /\ losses_arg' = larg
  /\ require_loss' = rl
  /\ label_id' = lid
  /\ do_probs' = probs
  /\ losses' = <<>>
  /\ pc' = "inference"
  /\ UNCHANGED <<local_rank, scheduler, trainVars, idx, predictions>>

\* lines 247-258: one batch of the inference dataloader
InferBatch(batch) ==
  /\ pc = "inference"
  /\ Len(losses) < n_items
  /\ Len(batch) = Min(batch_size, n_items - Len(losses))
  /\ losses' = losses \o run_model(batch)
  /\ UNCHANGED <<pc, local_rank, scheduler, trainVars, metadata, n_items,
                 batch_size, losses_arg, require_loss, label_id, do_probs,
                 idx, predictions>>

\* lines 260-269, then 273-276
InferReturn ==
  /\ pc = "inference"
  /\ Len(losses) = n_items
  /\ losses' = IF do_probs THEN softmax(losses) ELSE losses
  /\ idx' = 0
  /\ predictions' = <<>>
  /\ pc' = "predict"
  /\ UNCHANGED <<local_rank, scheduler, trainVars, metadata, n_items,
                 batch_size, losses_arg, require_loss, label_id, do_probs>>

\* lines 277-298: one example of data.metadata
PredictExample ==
  /\ pc = "predict"
  /\ idx < Len(metadata)
  /\ predictions' = predictions
       \o ExamplePredictions(metadata[idx + 1], losses, label_id,
                             require_loss, do_probs)
  /\ idx' = idx + 1
  /\ UNCHANGED <<pc, local_rank, scheduler, trainVars, metadata, n_items,
                 batch_size, losses_arg, require_loss, label_id, do_probs,
                 losses>>

\* line 300
PredictReturn ==
  /\ pc = "predict"
  /\ idx = Len(metadata)
  /\ pc' = "predicted"
  /\ UNCHANGED <<local_rank, scheduler, trainVars, predictVars>>

\* ------------------------------------------------------------ specification
Batches(k) == [1..k -> Items]

\* lines 15-45: a constructed wrapper, before any call
Constructed ==
  /\ pc = "idle"
  /\ num_training_steps = 0
  /\ n_batches = 0
  /\ gradient_accumulation_steps = 1
  /\ save_period = 1
  /\ log_period = 1
  /\ global_step = 0
  /\ epoch = 0
  /\ batch_i = 0
  /\ train_losses = <<>>
  /\ stop_training = FALSE
  /\ grads = 0
  /\ trace = <<>>
  /\ checkpoints = {}
  /\ metadata = <<>>
  /\ n_items = 0
  /\ batch_size = 1
  /\ losses_arg = <<>>
  /\ require_loss = FALSE
  /\ label_id = <<>>
  /\ do_probs = FALSE
  /\ losses = <<>>
  /\ idx = 0
  /\ predictions = <<>>

\* a worker of a training run: any rank, optimizer set up with or without a
\* scheduler (lines 139, 148, 159)
Init ==
  /\ Constructed
  /\ local_rank \in Ranks
  /\ scheduler \in BOOLEAN

Next ==
  \/ \E steps \in 0..MaxSteps, nb \in 0..MaxBatches, accum \in 1..MaxAccum,
        sp \in 1..MaxPeriod, lp \in 1..MaxPeriod :
       DoTrain(steps, nb, accum, sp, lp)
  \/ ForEpoch
  \/ BatchesExhausted
  \/ \E batch \in TrainBatches : TrainStep(batch)
  \/ EpochEnd
  \/ FinishTraining

Spec == Init /\ [][Next]_vars

\* the control thread keeps running until do_train returns
FairSpec == Spec /\ WF_vars(Next)

\* a wrapper built with the defaults of line 15, used for scoring only
PredictInit ==
  /\ Constructed
  /\ local_rank = -1
  /\ scheduler = FALSE

PredictNext ==
  \/ \E n \in 1..MaxItems :
       \E md \in MetadataFor(n), bs \in BatchSizes, larg \in LossArgs(n),
          rl \in BOOLEAN, probs \in BOOLEAN :
         \E lid \in {<<>>} \cup {<<k>> : k \in 1..MinOptions(md)} :
           DoPredict(md, n, bs, larg, rl, lid, probs)
  \/ \E k \in BatchSizes : \E batch \in Batches(k) : InferBatch(batch)
  \/ InferReturn
  \/ PredictExample
  \/ PredictReturn

PredictSpec == PredictInit /\ [][PredictNext]_vars

\* ------------------------------------------------------------ properties
EventsAt(op, step) ==
  {i \in 1..Len(trace) : trace[i].op = op /\ trace[i].step = step}

EventsOf(op) == {i \in 1..Len(trace) : trace[i].op = op}

ExecutedSteps == {trace[i].step : i \in EventsOf("run_model")}

NaNSteps == {trace[i].step : i \in EventsOf("print_stop")}

NoNaN == NaNSteps = {}

\* backward passes between the last zero_grad before position i and i
RECURSIVE BackwardsBefore(_)
BackwardsBefore(i) ==
  IF i <= 1 THEN 0
  ELSE IF trace[i - 1].op = "zero_grad" THEN 0
  ELSE (IF trace[i - 1].op = "backward" THEN 1 ELSE 0) + BackwardsBefore(i - 1)

\* C1: a NaN loss at step k halts the training loop at step k: global_step
\* stays k and nothing but the closing "Finish training" line follows the
\* divergence message (no later batch, backward pass, update, log or save).
C1_NaNHaltsLoop ==
  \A i \in EventsOf("print_stop") :
    /\ global_step = trace[i].step
    /\ \A j \in (i + 1)..Len(trace) : trace[j].op = "info_finish"

\* C2: with no NaN loss and a non-empty dataloader, optimizer.step runs once
\* at each global_step that is a multiple of gradient_accumulation_steps and
\* at no other step: floor(num_training_steps / gradient_accumulation_steps)
\* times in all when do_train returns.
C2_OptimizerStepCount ==
  NoNaN =>
    /\ \A i \in EventsOf("optimizer.step") :
         /\ trace[i].step % gradient_accumulation_steps = 0
         /\ Cardinality(EventsAt("optimizer.step", trace[i].step)) = 1
    /\ (pc = "trained" /\ n_batches >= 1) =>
         /\ Cardinality(EventsOf("optimizer.step"))
              = num_training_steps \div gradient_accumulation_steps
         /\ \A s \in 1..num_training_steps :
              s % gradient_accumulation_steps = 0
                => EventsAt("optimizer.step", s) # {}

C2_Witness ==
  /\ pc = "trained"
  /\ NoNaN
  /\ n_batches = 2
  /\ num_training_steps = 3
  /\ gradient_accumulation_steps = 2
  /\ Cardinality(EventsOf("optimizer.step")) = 1

\* C3: do_train terminates; global_step starts at 0, grows by exactly 1 per
\* batch processed and never exceeds num_training_steps; with no NaN loss and
\* at least one batch per pass it ends equal to num_training_steps, over as
\* many passes of the dataloader as that takes.
C3_StepDrivenTermination ==
  /\ [](pc = "idle" => global_step = 0)
  /\ [](global_step <= num_training_steps)
  /\ [][/\ global_step' \in {global_step, global_step + 1}
        /\ (global_step' = global_step + 1)
             <=> (Len(trace') > Len(trace) /\ trace'[Len(trace) + 1].op = "run_model")]_vars
  /\ []((pc = "trained" /\ NoNaN /\ n_batches >= 1)
          => global_step = num_training_steps)
  /\ <>(pc = "trained")

C3_Witness ==
  /\ pc = "trained"
  /\ NoNaN
  /\ n_batches = 1
  /\ num_training_steps = 3
  /\ global_step = 3
  /\ epoch = 2

\* option k minimises cur, and is the lowest such option among ties
SelectsMinimum(cur, k) ==
  /\ \A j \in 1..Len(cur) : ~IsLt(cur[j], cur[k])
  /\ \A j \in 1..(k - 1) : cur[j] # cur[k]

\* C4: with label_id unset and require_loss false the result holds, per
\* example, exactly one bare option string: the (stripped) option with the
\* minimum aggregated loss, the lowest index on ties.
C4_MinimumLossOption ==
  (pc = "predicted" /\ label_id = <<>> /\ ~require_loss) =>
    /\ Len(predictions) = Len(metadata)
    /\ \A e \in 1..Len(metadata) :
         \E k \in 1..Len(metadata[e].options) :
           /\ SelectsMinimum(OptionLosses(metadata[e], losses), k)
           /\ predictions[e] = Bare(Strip(metadata[e].options[k]))

\* C5: one prediction per example in every configuration except label_id
\* given with require_loss false, where there are two; with label_id given
\* and require_loss true the result holds only the pair (options[label_id],
\* aggregated score of that option) per example.
C5_ExclusiveBranches ==
  pc = "predicted" =>
    /\ Len(predictions) = IF label_id # <<>> /\ ~require_loss
                          THEN 2 * Len(metadata) ELSE Len(metadata)
    /\ (label_id # <<>> /\ require_loss) =>
         \A e \in 1..Len(metadata) :
           predictions[e]
             = Pair(Strip(metadata[e].options[label_id[1]]),
                    OptionLosses(metadata[e], losses)[label_id[1]])

\* C6: do_predict aggregates the losses array the caller supplies: the
\* predictions are those computed from (metadata, L, label_id, require_loss,
\* do_probs).
C6_UsesSuppliedLosses ==
  (pc = "predicted" /\ losses_arg # <<>>) =>
    predictions
      = PredictAll(metadata, losses_arg, label_id, require_loss, do_probs)

\* C7 (as stated): the periodic step log is emitted only by a process with
\* local_rank <= 0; a process with local_rank > 0 emits none.
C7_OnlyPrimaryLogs == local_rank > 0 => EventsOf("info_step") = {}

\* C7 (amended): every process, whatever its local_rank, emits the step log
\* once at each executed step that is a multiple of log_period and whose loss
\* is not NaN, and at no other step.
C7_EveryRankLogs ==
  \A s \in ExecutedSteps :
    Cardinality(EventsAt("info_step", s))
      = IF s % log_period = 0 /\ s \notin NaNSteps THEN 1 ELSE 0

C7_Witness ==
  /\ pc = "trained"
  /\ local_rank > 0
  /\ log_period = 2
  /\ EventsAt("info_step", 2) # {}
  /\ EventsAt("run_model", 1) # {}

\* C8: an example whose label mask has no nonzero entry scores NaN, and that
\* NaN is rejected: the array do_inference returns holds no NaN, so
\* do_predict ranks no NaN aggregated loss.
C8_NaNRejected ==
  /\ \A it \in Items : MaskCount(it) = 0 => IsNaN(NormLoss(it))
  /\ pc \in {"predict", "predicted"} => ~HasNaN(losses)

\* C9: a process with local_rank <= 0 writes exactly one checkpoint, named by
\* the step, at each step that is a multiple of save_period and whose loss is
\* not NaN, and none at any other step; a process with local_rank > 0 writes
\* none; a checkpoint of a step that also updates the parameters is written
\* after that step's optimizer.step.
C9_CheckpointSchedule ==
  /\ local_rank > 0 => (checkpoints = {} /\ EventsOf("torch.save") = {})
  /\ local_rank <= 0 =>
       /\ \A s \in ExecutedSteps :
            Cardinality(EventsAt("torch.save", s))
              = IF s % save_period = 0 /\ s \notin NaNSteps THEN 1 ELSE 0
       /\ checkpoints = {trace[i].step : i \in EventsOf("torch.save")}
  /\ (pc = "trained" /\ n_batches >= 1) => ExecutedSteps = 1..num_training_steps
  /\ ExecutedSteps \subseteq 1..num_training_steps
  /\ \A i \in EventsOf("torch.save") :
       trace[i].step % gradient_accumulation_steps = 0
         => \E j \in EventsAt("optimizer.step", trace[i].step) : j < i

C9_Witness ==
  /\ pc = "trained"
  /\ local_rank = 0
  /\ save_period = 2
  /\ gradient_accumulation_steps = 2
  /\ num_training_steps = 3
  /\ 2 \in checkpoints
  /\ NaNSteps = {3}

\* C10: every optimizer.step applies the gradients of exactly
\* gradient_accumulation_steps backward passes since the previous zero_grad,
\* in the order clip_grad_norm_, optimizer.step, scheduler.step (if any),
\* zero_grad, whatever the losses (NaN included).
C10_FullAccumulation ==
  \A i \in EventsOf("optimizer.step") :
    /\ BackwardsBefore(i) = gradient_accumulation_steps
    /\ trace[i - 1].op = "clip_grad_norm_"
    /\ IF scheduler
       THEN trace[i + 1].op = "scheduler.step" /\ trace[i + 2].op = "zero_grad"
       ELSE trace[i + 1].op = "zero_grad"

====
